---- MODULE Spec2Model ----
(***************************************************************************)
(* vimView: the catalog / mutation / undo engine of ImageViewerWidget      *)
(* (widgets/image_viewer.py) and the ThumbnailWorker                       *)
(* (workers/thumbnail_worker.py), as a state machine.                      *)
(*                                                                         *)
(* A file name is a sequence of one-character strings, a path is a record  *)
(* [dir, name].  Indices (current_index, the "index" of an undo entry) are *)
(* 0-based as in the Python code; sequences are 1-based, so list[i] of the *)
(* code is written s[i + 1].                                               *)
(***************************************************************************)
EXTENDS Integers, Sequences, FiniteSets, TLC

(***************************************************************************)
(* Bounds of the model.                                                    *)
(***************************************************************************)
MaxCommits == 2      \* committed mutations explored per run
MaxFilterCommits == 1  \* the same, in the runs that also use the search prompt
MaxLoads == 2        \* calls of load_directory explored per run
MaxFilterLoads == 1   \* the same, in the runs that also use the search prompt
MaxQueue == 1        \* icon_ready events queued for the foreground

(***************************************************************************)
(* Characters and strings.                                                 *)
(***************************************************************************)
Code(c) ==
    CASE c = "." -> 46
      [] c = "1" -> 49
      [] c = "2" -> 50
      [] c = "3" -> 51
      [] c = "B" -> 66
      [] c = "G" -> 71
      [] c = "N" -> 78
      [] c = "P" -> 80
      [] c = "_" -> 95
      [] c = "a" -> 97
      [] c = "b" -> 98
      [] c = "g" -> 103
      [] c = "j" -> 106
      [] c = "n" -> 110
      [] c = "p" -> 112
      [] c = "t" -> 116
      [] c = "x" -> 120
      [] c = "z" -> 122

Lower(c) ==
    CASE c = "B" -> "b"
      [] c = "G" -> "g"
      [] c = "N" -> "n"
      [] c = "P" -> "p"
      [] OTHER -> c

LowerStr(s) == [i \in 1..Len(s) |-> Lower(s[i])]

\* Python str comparison: lexicographic by code point, a proper prefix first.
RECURSIVE StrLess(_, _)
StrLess(s, t) ==
    IF t = <<>> THEN FALSE
    ELSE IF s = <<>> THEN TRUE
    ELSE IF Code(Head(s)) # Code(Head(t)) THEN Code(Head(s)) < Code(Head(t))
    ELSE StrLess(Tail(s), Tail(t))

\* Python "sub in s"
Contains(s, sub) ==
    \E i \in 0..(Len(s) - Len(sub)) : SubSeq(s, i + 1, i + Len(sub)) = sub

\* Python str.rfind("."), as a 1-based position; 0 when there is no dot.
RFindDot(s) ==
    IF \E i \in 1..Len(s) : s[i] = "."
    THEN CHOOSE i \in 1..Len(s) : s[i] = "." /\ \A j \in (i + 1)..Len(s) : s[j] # "."
    ELSE 0

\* pathlib PurePath.suffix: the last dot and what follows it, unless that dot is
\* the first or the last character of the name.
Suffix(name) ==
    LET i == RFindDot(name)
    IN IF 1 < i /\ i < Len(name) THEN SubSeq(name, i, Len(name)) ELSE <<>>

\* pathlib PurePath.stem
Stem(name) ==
    LET i == RFindDot(name)
    IN IF 1 < i /\ i < Len(name) THEN SubSeq(name, 1, i - 1) ELSE name

\* str(counter) for the collision counters the model reaches
Digits(n) ==
    CASE n = 1 -> <<"1">>
      [] n = 2 -> <<"2">>
      [] n = 3 -> <<"3">>

StartsWithDot(name) == Len(name) > 0 /\ name[1] = "."

(***************************************************************************)
(* Paths, lists and the filesystem.                                        *)
(***************************************************************************)
PathOf(dir, name) == [dir |-> dir, name |-> name]      \* dir / name

None == [none |-> TRUE]                       \* Python None

\* list.index(x): 0-based position of the first occurrence (x is in s)
IndexOf(s, x) == (CHOOSE i \in 1..Len(s) : s[i] = x /\ \A j \in 1..(i - 1) : s[j] # x) - 1

InList(s, x) == \E i \in 1..Len(s) : s[i] = x

\* list.pop(i), 0-based, 0 <= i < len
Pop(s, i) == SubSeq(s, 1, i) \o SubSeq(s, i + 2, Len(s))

\* list.remove(x): drops the first occurrence
Remove(s, x) == Pop(s, IndexOf(s, x))

\* list.insert(i, x) for i >= 0: positions past the end append
Insert(s, i, x) ==
    IF i >= Len(s) THEN Append(s, x)
    ELSE SubSeq(s, 1, i) \o <<x>> \o SubSeq(s, i + 1, Len(s))

\* list[i] = x, 0-based, 0 <= i < len
SetAt(s, i, x) == [s EXCEPT ![i + 1] = x]

\* [f for f in s if pred]
RECURSIVE Matches(_, _)
Matches(s, text) ==
    IF s = <<>> THEN <<>>
    ELSE (IF Contains(LowerStr(Head(s).name), LowerStr(text)) THEN <<Head(s)>> ELSE <<>>)
         \o Matches(Tail(s), text)

\* dict without a key / with a key set
DictPop(d, k) == [x \in (DOMAIN d) \ {k} |-> d[x]]
DictSet(d, k, v) == [x \in (DOMAIN d) \cup {k} |-> IF x = k THEN v ELSE d[x]]
EmptyDict == [x \in {} |-> 0]

\* The filesystem is a function from the paths of the existing files to the
\* identity of the file stored there.  os.rename / shutil.move to a path that
\* is not a directory replaces whatever file is at the destination (POSIX).
FsExists(files, p) == p \in DOMAIN files
FsMoved(files, src, dst) ==
    [x \in ((DOMAIN files) \ {src}) \cup {dst} |-> IF x = dst THEN files[src] ELSE files[x]]

\* sorted(paths): the paths share their directory, so the order is that of names
RECURSIVE SortedSeq(_)
SortedSeq(S) ==
    IF S = {} THEN <<>>
    ELSE LET m == CHOOSE x \in S : \A y \in S \ {x} : StrLess(x.name, y.name)
         IN <<m>> \o SortedSeq(S \ {m})

(***************************************************************************)
(* Configuration and the inputs the model draws from.                      *)
(***************************************************************************)
Exts ==                                           \* exts of _get_images
    { <<".", "p", "n", "g">>, <<".", "j", "p", "g">>, <<".", "j", "p", "e", "g">>,
      <<".", "b", "m", "p">>, <<".", "g", "i", "f">>, <<".", "w", "e", "b", "p">> }
Root == <<"D">>                                   \* the directory that is loaded
TrashDirOf(directory) == Append(directory, ".vimview_trash")
Missing == <<"M">>                                \* a directory that does not exist
Folders == [b |-> "folder_1"]                     \* config["quick_folders"]

A_PNG == <<"a", ".", "p", "n", "g">>
B_PNG == <<"b", ".", "p", "n", "g">>
A1_PNG == <<"a", "_", "1", ".", "p", "n", "g">>
A_UPPER == <<"a", ".", "P", "N", "G">>
HIDDEN_PNG == <<".", "a", ".", "p", "n", "g">>
NOTE_TXT == <<"n", ".", "t", "x", "t">>

\* The filesystems a run may start from: path -> identity of the file.  Next
\* to its images the loaded directory holds a text file and a hidden file named
\* like an image, and the quick folder holds a file named like an image.  In
\* one layout the directory holds a.png and b.png and has a trash with files
\* named like a.png; in the other it holds a.PNG and has no trash yet.
Others ==
    PathOf(Root, NOTE_TXT) :> 3
      @@ PathOf(Append(Root, "folder_1"), A_PNG) :> 4
      @@ PathOf(Root, HIDDEN_PNG) :> 7

Trashed ==
    PathOf(TrashDirOf(Root), A_PNG) :> 5
      @@ PathOf(TrashDirOf(Root), A1_PNG) :> 6

Layouts ==
    { PathOf(Root, A_PNG) :> 1 @@ PathOf(Root, B_PNG) :> 2 @@ Others @@ Trashed,
      PathOf(Root, A_UPPER) :> 1 @@ Others }

LayoutDirs(files) == {Root} \cup {p.dir : p \in DOMAIN files}

\* what the user types into the rename prompt / the search prompt (stripped)
RenameInputs == { <<"z">>, B_PNG }
\* names with an extension of their own and names that start with a dot
Z_TXT == <<"z", ".", "t", "x", "t">>
DOT_Z == <<".", "z">>
OddNames == { Z_TXT, DOT_Z }
Queries == { <<"a">>, <<"B">>, <<"p">> }
\* the directories picked in the dialog of the custom move
CustomDirs == { Root }

(***************************************************************************)
(* State.                                                                  *)
(***************************************************************************)
VARIABLES
    fs,                   \* the filesystem: path -> file identity
    dirs,                 \* the directories that exist
    require_confirmation, \* settings["require_confirmation"]
    at_home,              \* the home screen is shown, not the viewer
    directory,            \* self.directory
    all_image_files,      \* self.all_image_files
    image_files,          \* self.image_files (the active view)
    current_index,        \* self.current_index
    thumb_cache,          \* self.thumb_cache: path -> identity of the decoded file
    filmstrip_item_map,   \* keys of self.filmstrip_item_map
    undo_stack,           \* self.undo_stack
    mode,                 \* self.mode
    confirm_callback,     \* self.confirm_callback
    is_search_filtered,   \* self.is_search_filtered
    pre_search_path,      \* self.pre_search_path
    overlay,              \* text of self.overlay while visible, else "hidden"
    overlay_timer,        \* self.overlay_timer is active
    input_visible,        \* self.input_container is visible
    text_input,           \* self.text_input.text() while the prompt is open
    suggestion_list,      \* self.suggestion_list: [visible, items, row]
    worker,               \* self.worker: the ThumbnailWorker thread, or None
    queue,                \* icon_ready events posted to the foreground, not yet run
    detached,             \* threads still in run() that self.worker no longer refers to
    last,                 \* the handler that ran last and how it ended
    pre,                  \* catalog and filesystem before the last committed mutation
    origin,               \* the path that was current when the search began, while
                          \* the prompt is open or the view is filtered
    committed,            \* committed mutations since the last load
    undone,               \* undo calls that took an entry since the last load
    loads_left,           \* calls of load_directory the run may still make
    commits_left          \* committed mutations the run may still make

vars == <<fs, dirs, require_confirmation, at_home, directory, all_image_files,
          image_files, current_index, thumb_cache, filmstrip_item_map, undo_stack,
          mode, confirm_callback, is_search_filtered, pre_search_path, overlay,
          overlay_timer, input_visible, text_input, suggestion_list, worker, queue,
          detached, last, pre, origin, committed, undone, loads_left, commits_left>>

\* The part of the state the handlers below read and write, as one record.
Cur ==
    [ fs |-> fs, dirs |-> dirs, directory |-> directory,
      all_image_files |-> all_image_files, image_files |-> image_files,
      current_index |-> current_index, thumb_cache |-> thumb_cache,
      filmstrip_item_map |-> filmstrip_item_map, undo_stack |-> undo_stack,
      mode |-> mode, confirm_callback |-> confirm_callback,
      is_search_filtered |-> is_search_filtered, pre_search_path |-> pre_search_path,
      overlay |-> overlay, overlay_timer |-> overlay_timer,
      worker |-> worker, queue |-> queue, detached |-> detached, res |-> "ok" ]

(***************************************************************************)
(* The thumbnail worker (workers/thumbnail_worker.py).                     *)
(*   i        the position of the for loop in image_paths (0-based)        *)
(*   in_item  the flag was read as set and the item at i is being decoded  *)
(*   finished run() has returned                                           *)
(***************************************************************************)
NewWorker(image_paths) ==
    [ image_paths |-> image_paths, i |-> 0, in_item |-> FALSE,
      is_running |-> TRUE, finished |-> FALSE ]

\* QImageReader.read() of the file at a path: the image of the file stored
\* there, or a null image when nothing can be read.
Decode(files, p) ==
    IF FsExists(files, p) THEN [isNull |-> FALSE, file |-> files[p]] ELSE [isNull |-> TRUE]

\* a variant that decodes the first path of the list whatever the position
EmitItemFirst(w, files, q) ==
    LET p == w.image_paths[1]
        img == Decode(files, p)
    IN IF ~img.isNull THEN Append(q, [path |-> p, pixmap |-> img.file]) ELSE q

\* lines 21-26: decode the item at i and emit icon_ready unless the image is null
EmitItem(w, files, q) ==
    LET p == w.image_paths[w.i + 1]
        img == Decode(files, p)
    IN IF ~img.isNull THEN Append(q, [path |-> p, pixmap |-> img.file]) ELSE q

\* a variant of the loop that goes on whatever the flag says
WorkerStepDeaf(w, files, q) ==
    IF w.in_item
    THEN [ worker |-> [w EXCEPT !.i = w.i + 1, !.in_item = FALSE],
           queue |-> EmitItem(w, files, q) ]
    ELSE [ worker |-> IF w.i >= Len(w.image_paths)
                      THEN [w EXCEPT !.finished = TRUE]
                      ELSE [w EXCEPT !.in_item = TRUE],
           queue |-> q ]

\* ThumbnailWorker.run, one step of the thread: at the top of the loop (lines
\* 14-19) it leaves the loop when the list is used up or the flag was reset,
\* else takes the item; inside the loop (lines 21-26) it decodes and emits.
WorkerStep(w, files, q) ==
    IF w.in_item
    THEN [ worker |-> [w EXCEPT !.i = w.i + 1, !.in_item = FALSE],
           queue |-> EmitItem(w, files, q) ]
    ELSE [ worker |-> IF w.i >= Len(w.image_paths) \/ ~w.is_running
                      THEN [w EXCEPT !.finished = TRUE]
                      ELSE [w EXCEPT !.in_item = TRUE],
           queue |-> q ]

\* ThumbnailWorker.stop()
Stop(w) == [w EXCEPT !.is_running = FALSE]

\* a variant that returns at once
WaitSkipped(w, files, q) == [worker |-> w, queue |-> q]

\* QThread.wait(): the caller is blocked, nothing but the thread runs, until
\* run() has returned
RECURSIVE Wait(_, _, _)
Wait(w, files, q) ==
    IF w.finished THEN [worker |-> w, queue |-> q]
    ELSE LET s == WorkerStep(w, files, q) IN Wait(s.worker, files, s.queue)

(***************************************************************************)
(* Helpers of ImageViewerWidget.                                           *)
(***************************************************************************)
Min(a, b) == IF a < b THEN a ELSE b
Max(a, b) == IF a > b THEN a ELSE b

\* a variant without the clamp
ClampIndexOff(index, length) == index

\* max(0, min(index, length - 1))
ClampIndex(index, length) == Max(0, Min(index, length - 1))

\* show_animated_overlay(text, auto_hide)
ShowOverlay(c, text, auto_hide) ==
    [c EXCEPT !.overlay = text, !.overlay_timer = auto_hide]

\* _update_image: returns early on an empty list, else clamps current_index
UpdateImage(c) ==
    IF c.image_files = <<>> THEN c
    ELSE [c EXCEPT !.current_index = ClampIndex(c.current_index, Len(c.image_files))]

\* if self.worker: self.worker.stop(); self.worker.wait()
StopAndWait(w, files, q) ==
    IF w = None THEN [worker |-> w, queue |-> q]
    ELSE Wait(Stop(w), files, q)

\* the threads left in run() when self.worker is given a new thread
Orphans(w, threads) ==
    IF w # None /\ ~w.finished THEN threads \cup {w} ELSE threads

\* _rebuild_filmstrip_and_thumbnails
Rebuild(c) ==
    LET st == StopAndWait(c.worker, c.fs, c.queue)
        c1 == [c EXCEPT !.worker = st.worker, !.queue = st.queue,
                        !.filmstrip_item_map = {c.image_files[k] : k \in 1..Len(c.image_files)}]
        c2 == UpdateImage(c1)
    IN IF c2.image_files # <<>>
       THEN [c2 EXCEPT !.worker = NewWorker(c2.image_files),
                       !.detached = Orphans(st.worker, c2.detached)]
       ELSE c2

\* the name a rename goes to: the current suffix is added to a name without one
RenameTarget(img_path, new_name) ==
    PathOf(img_path.dir,
           IF Suffix(new_name) = <<>> THEN new_name \o Suffix(img_path.name) ELSE new_name)

\* a variant that takes the file's name whether or not it is free
FreePathTaken(files, folder, name, counter) == PathOf(folder, name)

\* the while loop of _move_to_target / _delete_current: the first of name,
\* stem_1.ext, stem_2.ext, ... that does not exist in the folder
RECURSIVE FreePath(_, _, _, _)
FreePath(files, folder, name, counter) ==
    LET cand == IF counter = 0 THEN PathOf(folder, name)
                ELSE PathOf(folder, Stem(name) \o <<"_">> \o Digits(counter) \o Suffix(name))
    IN IF FsExists(files, cand) THEN FreePath(files, folder, name, counter + 1) ELSE cand

\* self.image_files[self.current_index] raises IndexError
NoCurrent(c) == c.current_index >= Len(c.image_files)

\* _remove_item_from_view(index)
RemoveItemFromView(c, index) ==
    LET img_path == c.image_files[index + 1]
    IN UpdateImage(
         [c EXCEPT !.image_files = Pop(c.image_files, index),
                   !.all_image_files = IF InList(c.all_image_files, img_path)
                                       THEN Remove(c.all_image_files, img_path)
                                       ELSE c.all_image_files,
                   !.filmstrip_item_map = c.filmstrip_item_map \ {img_path}])

\* lines 578-579 / 673-674: move a cache entry from one key to another
MigrateCache(cache, from, to) ==
    IF from \in DOMAIN cache THEN DictSet(DictPop(cache, from), to, cache[from]) ELSE cache

\* a variant that renames without looking whether the target exists
RenameOverwriting(c, new_name, ok) ==
    IF NoCurrent(c) THEN [c EXCEPT !.res = "fault"]
    ELSE
    LET img_path == c.image_files[c.current_index + 1]
        new_path == RenameTarget(img_path, new_name)
    IN IF ~ok \/ ~FsExists(c.fs, img_path)
       THEN [c EXCEPT !.res = "failed"]
       ELSE UpdateImage(
              [c EXCEPT !.fs = FsMoved(c.fs, img_path, new_path),
                        !.image_files = SetAt(c.image_files, c.current_index, new_path),
                        !.all_image_files =
                            IF InList(c.all_image_files, img_path)
                            THEN SetAt(c.all_image_files, IndexOf(c.all_image_files, img_path), new_path)
                            ELSE c.all_image_files,
                        !.filmstrip_item_map = (c.filmstrip_item_map \ {img_path}) \cup {new_path},
                        !.thumb_cache = MigrateCache(c.thumb_cache, img_path, new_path),
                        !.undo_stack = Append(c.undo_stack,
                            [action |-> "rename_inplace", old_path |-> img_path,
                             new_path |-> new_path, index |-> c.current_index]),
                        !.res = "committed"])

\* _rename_current_file(new_name); ok: the filesystem lets the rename through
RenameCurrentFile(c, new_name, ok) ==
    IF NoCurrent(c) THEN [c EXCEPT !.res = "fault"]
    ELSE
    LET img_path == c.image_files[c.current_index + 1]
        new_path == RenameTarget(img_path, new_name)
    IN IF FsExists(c.fs, new_path)
       THEN [ShowOverlay(c, "error: file exists", TRUE) EXCEPT !.res = "exists"]
       ELSE IF ~ok \/ ~FsExists(c.fs, img_path)
       THEN [c EXCEPT !.res = "failed"]
       ELSE UpdateImage(
              [c EXCEPT !.fs = FsMoved(c.fs, img_path, new_path),
                        !.image_files = SetAt(c.image_files, c.current_index, new_path),
                        !.all_image_files =
                            IF InList(c.all_image_files, img_path)
                            THEN SetAt(c.all_image_files, IndexOf(c.all_image_files, img_path), new_path)
                            ELSE c.all_image_files,
                        !.filmstrip_item_map = (c.filmstrip_item_map \ {img_path}) \cup {new_path},
                        !.thumb_cache = MigrateCache(c.thumb_cache, img_path, new_path),
                        !.undo_stack = Append(c.undo_stack,
                            [action |-> "rename_inplace", old_path |-> img_path,
                             new_path |-> new_path, index |-> c.current_index]),
                        !.res = "committed"])

\* _move_to_target(target_folder)
MoveToTarget(c, target_folder, ok) ==
    IF NoCurrent(c) THEN [c EXCEPT !.res = "fault"]
    ELSE
    LET img_path == c.image_files[c.current_index + 1]
        c1 == [c EXCEPT !.dirs = c.dirs \cup {target_folder}]
        new_path == FreePath(c.fs, target_folder, img_path.name, 0)
    IN IF ~ok \/ ~FsExists(c.fs, img_path)
       THEN [c1 EXCEPT !.res = "failed"]
       ELSE RemoveItemFromView(
              [c1 EXCEPT !.fs = FsMoved(c.fs, img_path, new_path),
                         !.undo_stack = Append(c.undo_stack,
                             [action |-> "move", old_path |-> img_path,
                              new_path |-> new_path, index |-> c.current_index]),
                         !.res = "committed"],
              c.current_index)

\* a variant that takes the image out of the view before the filesystem call
DeleteCurrentEager(c, ok) ==
    IF NoCurrent(c) THEN [c EXCEPT !.res = "fault"]
    ELSE
    LET img_path == c.image_files[c.current_index + 1]
        trash_path == FreePath(c.fs, TrashDirOf(c.directory), img_path.name, 0)
        c1 == RemoveItemFromView(c, c.current_index)
    IN IF ~ok \/ ~FsExists(c.fs, img_path)
       THEN [c1 EXCEPT !.res = "failed"]
       ELSE [c1 EXCEPT !.fs = FsMoved(c.fs, img_path, trash_path),
                       !.undo_stack = Append(c.undo_stack,
                           [action |-> "delete", old_path |-> img_path,
                            trash_path |-> trash_path, index |-> c.current_index]),
                       !.res = "committed"]

\* _delete_current()
DeleteCurrent(c, ok) ==
    IF NoCurrent(c) THEN [c EXCEPT !.res = "fault"]
    ELSE
    LET img_path == c.image_files[c.current_index + 1]
        trash_path == FreePath(c.fs, TrashDirOf(c.directory), img_path.name, 0)
    IN IF ~ok \/ ~FsExists(c.fs, img_path)
       THEN [c EXCEPT !.res = "failed"]
       ELSE RemoveItemFromView(
              [c EXCEPT !.fs = FsMoved(c.fs, img_path, trash_path),
                        !.undo_stack = Append(c.undo_stack,
                            [action |-> "delete", old_path |-> img_path,
                             trash_path |-> trash_path, index |-> c.current_index]),
                        !.res = "committed"],
              c.current_index)

\* the path an undo entry moves the file back from
EntrySource(action) ==
    IF action.action = "delete" THEN action.trash_path ELSE action.new_path

\* lines 685-688: re-insert the restored path into the two lists
ReinsertView(view, index, old_path) == Insert(view, index, old_path)
ReinsertAll(all, index, old_path) ==
    IF ~InList(all, old_path) THEN Append(all, old_path) ELSE all

\* lines 696-707: keep a cached thumbnail, else decode one now
RestoreThumb(cache, files, old_path) ==
    IF old_path \in DOMAIN cache THEN cache
    ELSE IF ~Decode(files, old_path).isNull
         THEN DictSet(cache, old_path, Decode(files, old_path).file)
         ELSE cache

\* a variant that leaves the entry on the stack
TakeEntryKept(stack) == stack

\* line 653: the entry is taken off the stack before the reversal is tried
TakeEntry(stack) == SubSeq(stack, 1, Len(stack) - 1)

\* a variant of the empty-stack branch that also rewinds the cursor
NothingToUndoRewound(c) ==
    [ShowOverlay(c, "no history to undo", TRUE) EXCEPT !.res = "nothing", !.current_index = 0]

\* lines 649-651: the undo stack is empty
NothingToUndo(c) ==
    [ShowOverlay(c, "no history to undo", TRUE) EXCEPT !.res = "nothing"]

\* _undo_last_action(); ok: the filesystem lets the move back through
UndoLastAction(c, ok) ==
    IF c.undo_stack = <<>>
    THEN NothingToUndo(c)
    ELSE
    LET action == c.undo_stack[Len(c.undo_stack)]
        index == action.index
        src == EntrySource(action)
        old_path == action.old_path
        c1 == [c EXCEPT !.undo_stack = TakeEntry(c.undo_stack)]
    IN IF ~ok \/ ~FsExists(c.fs, src)
       THEN [c1 EXCEPT !.res = "failed"]
       ELSE
       LET c2 == [c1 EXCEPT !.fs = FsMoved(c.fs, src, old_path)]
       IN IF action.action = "rename_inplace"
          THEN IF index >= Len(c2.image_files)
               THEN [c2 EXCEPT !.res = "index_error"]     \* IndexError, caught at 713
               ELSE [ ShowOverlay(
                        UpdateImage(
                          [c2 EXCEPT
                             !.image_files = SetAt(c2.image_files, index, old_path),
                             !.all_image_files =
                                 IF InList(c2.all_image_files, src)
                                 THEN SetAt(c2.all_image_files, IndexOf(c2.all_image_files, src), old_path)
                                 ELSE c2.all_image_files,
                             !.filmstrip_item_map = (c2.filmstrip_item_map \ {src}) \cup {old_path},
                             !.thumb_cache = MigrateCache(c2.thumb_cache, src, old_path)]),
                        "undo: rename reverted", TRUE)
                      EXCEPT !.res = "undone" ]
          ELSE [ ShowOverlay(
                   UpdateImage(
                     [c2 EXCEPT
                        !.image_files = ReinsertView(c2.image_files, index, old_path),
                        !.all_image_files = ReinsertAll(c2.all_image_files, index, old_path),
                        !.filmstrip_item_map = c2.filmstrip_item_map \cup {old_path},
                        !.thumb_cache = RestoreThumb(c2.thumb_cache, c2.fs, old_path),
                        !.current_index = index]),
                   "undo: file restored", TRUE)
                 EXCEPT !.res = "undone" ]

\* the callbacks handed to _handle_action_request
RenameCallback(text) == [kind |-> "rename", arg |-> text]
MoveCallback(target) == [kind |-> "move", arg |-> target]
DeleteCallback == [kind |-> "delete"]

RunCallback(c, callback, ok) ==
    CASE callback.kind = "rename" -> RenameCurrentFile(c, callback.arg, ok)
      [] callback.kind = "move" -> MoveToTarget(c, callback.arg, ok)
      [] callback.kind = "delete" -> DeleteCurrent(c, ok)

\* a variant that runs the callback whatever the setting says
HandleActionRequestEager(c, callback, success_msg, ok) ==
    LET c1 == RunCallback(c, callback, ok)
    IN IF c1.res = "fault" THEN c1
       ELSE ShowOverlay(c1, success_msg, TRUE)

\* _handle_action_request(prompt, callback, success_msg)
HandleActionRequest(c, callback, success_msg, ok) ==
    IF require_confirmation
    THEN [ShowOverlay([c EXCEPT !.mode = "CONFIRM", !.confirm_callback = callback],
                      "confirm", FALSE)
          EXCEPT !.res = "requested"]
    ELSE LET c1 == RunCallback(c, callback, ok)
         IN IF c1.res = "fault" THEN c1           \* the exception leaves the handler
            ELSE ShowOverlay(c1, success_msg, TRUE)

\* _jump_to_image(target)
JumpToImage(c, target) ==
    LET c1 == IF c.is_search_filtered
              THEN Rebuild([c EXCEPT !.image_files = c.all_image_files,
                                     !.is_search_filtered = FALSE])
              ELSE c
    IN IF InList(c1.image_files, target)
       THEN [ShowOverlay(UpdateImage([c1 EXCEPT !.current_index = IndexOf(c1.image_files, target)]),
                         "jumped to", TRUE)
             EXCEPT !.res = "jumped"]
       ELSE [c1 EXCEPT !.res = "not found"]

\* _clear_search_filter()
ClearSearchFilter(c) ==
    IF ~c.is_search_filtered THEN [c EXCEPT !.res = "not filtered"]
    ELSE
    LET view == c.all_image_files
        found == c.pre_search_path # None /\ InList(view, c.pre_search_path)
        c1 == [c EXCEPT !.image_files = view,
                        !.is_search_filtered = FALSE,
                        !.current_index = IF found THEN IndexOf(view, c.pre_search_path) ELSE 0,
                        !.pre_search_path = IF found THEN None ELSE c.pre_search_path]
    IN [ShowOverlay(Rebuild(c1), "search cleared", TRUE) EXCEPT !.res = "cleared"]

\* a variant that filters the view it finds, not all_image_files
ApplyFilterOfView(c, text) ==
    LET matches == Matches(c.image_files, text)
    IN IF matches = <<>>
       THEN [ShowOverlay(c, "no matches found", TRUE) EXCEPT !.res = "no matches"]
       ELSE [ShowOverlay(Rebuild([c EXCEPT !.image_files = matches,
                                           !.is_search_filtered = TRUE,
                                           !.current_index = 0]),
                         "filtered", TRUE)
             EXCEPT !.res = "filtered"]

\* lines 467-475: apply a non-empty query
ApplyFilter(c, text) ==
    LET matches == Matches(c.all_image_files, text)
    IN IF matches = <<>>
       THEN [ShowOverlay(c, "no matches found", TRUE) EXCEPT !.res = "no matches"]
       ELSE [ShowOverlay(Rebuild([c EXCEPT !.image_files = matches,
                                           !.is_search_filtered = TRUE,
                                           !.current_index = 0]),
                         "filtered", TRUE)
             EXCEPT !.res = "filtered"]

\* _escape_or_back(): res is "none" when it returns False
EscapeOrBack(c) ==
    IF c.is_search_filtered THEN ClearSearchFilter(c)
    ELSE IF c.pre_search_path # None
    THEN [ShowOverlay(
            UpdateImage([c EXCEPT !.current_index =
                                      IF InList(c.image_files, c.pre_search_path)
                                      THEN IndexOf(c.image_files, c.pre_search_path) ELSE 0,
                                  !.pre_search_path = None]),
            "returned to previous image", TRUE)
          EXCEPT !.res = "returned"]
    ELSE [c EXCEPT !.res = "none"]

\* clean_up(), reached through go_home -> MainWindow.switch_to_home
CleanUp(c) ==
    LET st == StopAndWait(c.worker, c.fs, c.queue)
    IN [c EXCEPT !.worker = st.worker, !.queue = st.queue, !.res = "home"]

\* a variant that lists the hidden files too
GetImagesHidden(files, d) ==
    SortedSeq({p \in DOMAIN files :
                 /\ p.dir = d
                 /\ LowerStr(Suffix(p.name)) \in Exts})

\* _get_images()
GetImages(files, d) ==
    SortedSeq({p \in DOMAIN files :
                 /\ p.dir = d
                 /\ LowerStr(Suffix(p.name)) \in Exts
                 /\ ~StartsWithDot(p.name)})

\* load_directory(directory, initial_index).  When d does not exist (or is a
\* file) trash_dir.mkdir at line 213 raises after lines 206-210 have run.
LoadDirectory(c, d, initial_index) ==
    LET images == GetImages(c.fs, d)
    IN IF d \notin c.dirs
       THEN [c EXCEPT !.directory = d,
                      !.undo_stack = <<>>,
                      !.thumb_cache = EmptyDict,
                      !.is_search_filtered = FALSE,
                      !.pre_search_path = None,
                      !.res = "fault"]
       ELSE
       Rebuild(
         [c EXCEPT !.directory = d,
                   !.undo_stack = <<>>,
                   !.thumb_cache = EmptyDict,
                   !.is_search_filtered = FALSE,
                   !.pre_search_path = None,
                   !.dirs = c.dirs \cup {TrashDirOf(d)},
                   !.all_image_files = images,
                   !.image_files = images,
                   !.current_index = IF images # <<>>
                                     THEN ClampIndex(initial_index, Len(images)) ELSE 0,
                   !.mode = "NORMAL",
                   !.res = "loaded"])

(***************************************************************************)
(* Initial state: the widget after __init__, the home screen showing.      *)
(***************************************************************************)
Start ==
    /\ fs \in Layouts
    /\ dirs = LayoutDirs(fs)
    /\ require_confirmation \in BOOLEAN
    /\ at_home = TRUE
    /\ directory = None
    /\ all_image_files = <<>>
    /\ image_files = <<>>
    /\ current_index = 0
    /\ thumb_cache = EmptyDict
    /\ filmstrip_item_map = {}
    /\ undo_stack = <<>>
    /\ mode = "NORMAL"
    /\ confirm_callback = None
    /\ is_search_filtered = FALSE
    /\ pre_search_path = None
    /\ overlay = "hidden"
    /\ overlay_timer = FALSE
    /\ input_visible = FALSE
    /\ text_input = <<>>
    /\ suggestion_list = [visible |-> FALSE, items |-> <<>>, row |-> -1]
    /\ worker = None
    /\ queue = <<>>
    /\ detached = {}
    /\ last = [op |-> "init", res |-> "ok"]
    /\ pre = None
    /\ origin = None
    /\ committed = 0
    /\ undone = 0

Init == Start /\ commits_left = MaxCommits /\ loads_left = MaxLoads

(***************************************************************************)
(* Bookkeeping shared by the actions.                                      *)
(***************************************************************************)
Catalog(c) ==
    [ all_image_files |-> c.all_image_files, image_files |-> c.image_files,
      current_index |-> c.current_index, fs |-> c.fs ]

\* the model follows a mutation that commits only while the run has commits left
MayCommit(c) == c.res = "committed" => commits_left > 0

\* c is the state a handler has produced from Cur
Becomes(op, c) ==
    /\ MayCommit(c)
    /\ fs' = c.fs
    /\ dirs' = c.dirs
    /\ directory' = c.directory
    /\ all_image_files' = c.all_image_files
    /\ image_files' = c.image_files
    /\ current_index' = c.current_index
    /\ thumb_cache' = c.thumb_cache
    /\ filmstrip_item_map' = c.filmstrip_item_map
    /\ undo_stack' = c.undo_stack
    /\ mode' = c.mode
    /\ confirm_callback' = c.confirm_callback
    /\ is_search_filtered' = c.is_search_filtered
    /\ pre_search_path' = c.pre_search_path
    /\ overlay' = c.overlay
    /\ overlay_timer' = c.overlay_timer
    /\ worker' = c.worker
    /\ queue' = c.queue
    /\ detached' = c.detached
    /\ last' = [op |-> op, res |-> c.res]
    /\ pre' = IF c.res = "committed" THEN Catalog(Cur)
              ELSE IF Catalog(c) = Catalog(Cur) THEN pre
              ELSE None
    /\ origin' = IF op = "search_open"
                 THEN IF ~is_search_filtered /\ image_files # <<>>
                      THEN image_files[current_index + 1] ELSE origin
                 ELSE IF \/ c.is_search_filtered
                         \/ /\ input_visible /\ mode = "SEARCH"
                            /\ op \notin {"return", "escape", "suggestion_activated"}
                 THEN origin
                 ELSE None
    /\ committed' = IF c.res = "loaded" THEN 0
                    ELSE IF c.res = "committed" THEN committed + 1 ELSE committed
    /\ undone' = IF c.res = "loaded" THEN 0
                 ELSE IF op = "undo" /\ c.res \in {"undone", "failed", "index_error"}
                 THEN undone + 1 ELSE undone
    /\ commits_left' = IF c.res = "committed" THEN commits_left - 1 ELSE commits_left
    /\ UNCHANGED require_confirmation

\* the viewer widget has the keyboard focus
ViewerFocus == ~at_home /\ ~input_visible
\* keyPressEvent gets as far as the normal-mode key bindings
NormalKeys == ViewerFocus /\ mode \notin {"CONFIRM", "QUICK_MOVE"}
\* line 804: the commands that need an image
HasImages == image_files # <<>>
\* suggestion_list.hide().  The items of a hidden list without a selection are
\* never read again (clear() comes before every show()), so they are dropped.
HideSuggestions(sl) ==
    IF sl.row < 0 THEN [visible |-> FALSE, items |-> <<>>, row |-> sl.row]
    ELSE [sl EXCEPT !.visible = FALSE]

\* input_container.hide(); suggestion_list.hide().  The text of the hidden
\* prompt is never read again (every opening sets it), so it is dropped.
HideInput ==
    /\ input_visible' = FALSE
    /\ text_input' = <<>>
    /\ suggestion_list' = HideSuggestions(suggestion_list)

InputUnchanged == UNCHANGED <<input_visible, text_input, suggestion_list>>

(***************************************************************************)
(* Actions: one per handler.                                               *)
(***************************************************************************)
\* MainWindow.switch_to_viewer / load_last_session -> load_directory
Load(d, initial_index) ==
    /\ at_home
    /\ loads_left > 0
    /\ Becomes("load", LoadDirectory(Cur, d, initial_index))
    /\ at_home' = (LoadDirectory(Cur, d, initial_index).res = "fault")
    /\ loads_left' = loads_left - 1
    /\ InputUnchanged

\* lines 754-758 / 766-770: hide the overlay and return to NORMAL
Dismiss(c) == [c EXCEPT !.overlay = "hidden", !.mode = "NORMAL", !.res = "dismissed"]

\* lines 759-763 / 797-801: back out of the search, else go home
BackOrHome(op) ==
    LET c == EscapeOrBack(Cur)
    IN IF c.res = "none"
       THEN Becomes(op, CleanUp(Cur)) /\ at_home' = TRUE
       ELSE Becomes(op, c) /\ UNCHANGED at_home

\* keyPressEvent, Qt.Key_Escape (lines 746-763)
KeyEscape ==
    /\ ~at_home
    /\ UNCHANGED loads_left
    /\ IF input_visible
       THEN /\ Becomes("escape", [Cur EXCEPT !.mode = "NORMAL", !.pre_search_path = None,
                                             !.res = "input closed"])
            /\ HideInput
            /\ UNCHANGED at_home
       ELSE /\ InputUnchanged
            /\ IF overlay # "hidden" \/ mode # "NORMAL"
               THEN Becomes("escape", Dismiss(Cur)) /\ UNCHANGED at_home
               ELSE BackOrHome("escape")

\* keyPressEvent, Qt.Key_Space (lines 765-772)
KeySpace ==
    /\ ViewerFocus
    /\ mode \notin {"RENAME", "SEARCH"}
    /\ UNCHANGED <<loads_left, at_home>>
    /\ InputUnchanged
    /\ IF overlay # "hidden" \/ mode # "NORMAL"
       THEN Becomes("space", Dismiss(Cur))
       ELSE /\ EscapeOrBack(Cur).res # "none"
            /\ Becomes("space", EscapeOrBack(Cur))

\* keyPressEvent in CONFIRM mode, Return/Enter (lines 775-781)
KeyEnter ==
    /\ ViewerFocus
    /\ mode = "CONFIRM"
    /\ UNCHANGED <<loads_left, at_home>>
    /\ InputUnchanged
    /\ LET c == [Cur EXCEPT !.overlay = "hidden", !.mode = "NORMAL"]
       IN IF confirm_callback = None
          THEN Becomes("enter", [c EXCEPT !.res = "no callback"])
          ELSE \E ok \in BOOLEAN : Becomes("enter", RunCallback(c, confirm_callback, ok))

\* keyPressEvent in QUICK_MOVE mode, a key of the quick folders (lines 784-793)
KeyQuickFolder(key) ==
    /\ ViewerFocus
    /\ mode = "QUICK_MOVE"
    /\ UNCHANGED <<loads_left, at_home>>
    /\ InputUnchanged
    /\ \E ok \in BOOLEAN :
         Becomes("quick_move",
                 HandleActionRequest(Cur, MoveCallback(Append(directory, Folders[key])),
                                     "moved", ok))

\* keymap["quit"] (lines 796-801)
KeyQuit ==
    /\ NormalKeys
    /\ UNCHANGED loads_left
    /\ InputUnchanged
    /\ BackOrHome("quit")

\* keymap["prev"] / keymap["next"] (lines 808-813)
PrevIndex(index) == Max(0, index - 1)
NextIndex(index, length) == Min(length - 1, index + 1)

KeyPrev ==
    /\ NormalKeys /\ HasImages
    /\ UNCHANGED <<loads_left, at_home>>
    /\ InputUnchanged
    /\ Becomes("prev", UpdateImage([Cur EXCEPT !.current_index = PrevIndex(current_index),
                                               !.res = "moved"]))

KeyNext ==
    /\ NormalKeys /\ HasImages
    /\ UNCHANGED <<loads_left, at_home>>
    /\ InputUnchanged
    /\ Becomes("next", UpdateImage([Cur EXCEPT
                                      !.current_index = NextIndex(current_index, Len(image_files)),
                                      !.res = "moved"]))

\* keymap["delete"] (line 855)
KeyDelete ==
    /\ NormalKeys /\ HasImages
    /\ UNCHANGED <<loads_left, at_home>>
    /\ InputUnchanged
    /\ \E ok \in BOOLEAN :
         Becomes("delete", HandleActionRequest(Cur, DeleteCallback, "file trashed", ok))

\* keymap["move_mode"] (lines 860-867)
KeyMoveMode ==
    /\ NormalKeys /\ HasImages
    /\ UNCHANGED <<loads_left, at_home>>
    /\ InputUnchanged
    /\ Becomes("move_mode", [ShowOverlay([Cur EXCEPT !.mode = "QUICK_MOVE"], "quick move", FALSE)
                             EXCEPT !.res = "awaiting target"])

\* keymap["move_custom"] (lines 868-880): the dialog returns an existing directory
KeyMoveCustom(dest) ==
    /\ NormalKeys /\ HasImages
    /\ dest \in CustomDirs
    /\ UNCHANGED <<loads_left, at_home>>
    /\ InputUnchanged
    /\ \E ok \in BOOLEAN :
         Becomes("move_custom", HandleActionRequest(Cur, MoveCallback(dest), "moved", ok))

\* keymap["undo"] (line 882)
KeyUndo ==
    /\ NormalKeys
    /\ UNCHANGED <<loads_left, at_home>>
    /\ InputUnchanged
    /\ \E ok \in BOOLEAN : Becomes("undo", UndoLastAction(Cur, ok))

\* _hide_notification_overlay()
HideNotificationOverlay(c) ==
    [c EXCEPT !.overlay = "hidden",
              !.mode = IF c.mode = "CONFIRM" THEN "NORMAL" ELSE c.mode]

\* keymap["show_keys"] -> _toggle_keymap_overlay()
KeyShowKeys ==
    /\ NormalKeys /\ HasImages
    /\ UNCHANGED <<loads_left, at_home>>
    /\ InputUnchanged
    /\ IF overlay = "keybindings"
       THEN Becomes("show_keys", [HideNotificationOverlay(Cur) EXCEPT !.res = "keys hidden"])
       ELSE Becomes("show_keys", [ShowOverlay([Cur EXCEPT !.mode = "CONFIRM"], "keybindings", FALSE)
                                  EXCEPT !.res = "keys shown"])

\* overlay_timer.timeout -> _hide_notification_overlay()
OverlayTimeout ==
    /\ overlay_timer
    /\ UNCHANGED <<loads_left, at_home>>
    /\ InputUnchanged
    /\ Becomes("timer", [HideNotificationOverlay(Cur) EXCEPT !.overlay_timer = FALSE,
                                                             !.res = "hidden"])

\* keymap["rename"] -> _open_text_input(ViewerMode.RENAME)
KeyRename ==
    /\ NormalKeys /\ HasImages
    /\ UNCHANGED <<loads_left, at_home, suggestion_list>>
    /\ Becomes("rename_open", [Cur EXCEPT !.mode = "RENAME", !.overlay = "hidden",
                                          !.res = "prompt"])
    /\ text_input' = Stem(image_files[current_index + 1].name)
    /\ input_visible' = TRUE

\* keymap["search"] -> _open_text_input(ViewerMode.SEARCH)
KeySearch ==
    /\ NormalKeys
    /\ UNCHANGED <<loads_left, at_home, suggestion_list>>
    /\ Becomes("search_open",
               [Cur EXCEPT !.mode = "SEARCH", !.overlay = "hidden",
                           !.pre_search_path =
                               IF ~is_search_filtered /\ image_files # <<>>
                               THEN image_files[current_index + 1] ELSE pre_search_path,
                           !.res = "prompt"])
    /\ text_input' = <<>>
    /\ input_visible' = TRUE

\* the first six matches that _on_search_text_changed lists
FirstSix(s) == SubSeq(s, 1, Min(6, Len(s)))

\* lines 494-504: a quick thumbnail for every listed path that has none
RECURSIVE QuickThumbs(_, _, _)
QuickThumbs(cache, files, items) ==
    IF items = <<>> THEN cache
    ELSE LET f == Head(items)
             next == IF f \notin DOMAIN cache /\ ~Decode(files, f).isNull
                     THEN DictSet(cache, f, Decode(files, f).file) ELSE cache
         IN QuickThumbs(next, files, Tail(items))

\* text_input.textChanged -> _on_search_text_changed(text): the user edits the text
TextChanged(text) ==
    /\ ~at_home /\ input_visible
    /\ text # text_input
    /\ mode = "SEARCH"
    /\ text \in Queries \cup {<<>>}
    /\ UNCHANGED <<loads_left, at_home, input_visible>>
    /\ text_input' = text
    /\ LET matches == FirstSix(Matches(all_image_files, text))
       IN IF text = <<>> \/ matches = <<>>
          THEN /\ Becomes("typing", [Cur EXCEPT !.res = "typed"])
               /\ suggestion_list' = HideSuggestions(suggestion_list)
          ELSE /\ Becomes("typing",
                          [Cur EXCEPT !.thumb_cache = QuickThumbs(thumb_cache, fs, matches),
                                      !.res = "suggested"])
               /\ suggestion_list' = [visible |-> TRUE, items |-> matches, row |-> -1]

\* eventFilter: Up/Down in the prompt move the selection of the suggestion list
SuggestionKey(row) ==
    /\ ~at_home /\ input_visible /\ mode = "SEARCH"
    /\ suggestion_list.visible
    /\ row \in 0..(Len(suggestion_list.items) - 1)
    /\ row # suggestion_list.row
    /\ UNCHANGED <<loads_left, at_home, input_visible, text_input>>
    /\ suggestion_list' = [suggestion_list EXCEPT !.row = row]
    /\ Becomes("suggestion_key", [Cur EXCEPT !.res = "selected"])

\* suggestion_list.itemActivated -> _on_suggestion_activated(item)
SuggestionActivated(row) ==
    /\ ~at_home
    /\ suggestion_list.visible
    /\ row \in 0..(Len(suggestion_list.items) - 1)
    /\ UNCHANGED <<loads_left, at_home>>
    /\ input_visible' = FALSE
    /\ text_input' = <<>>
    /\ suggestion_list' = [suggestion_list EXCEPT !.visible = FALSE, !.row = row]
    /\ Becomes("suggestion_activated", JumpToImage(Cur, suggestion_list.items[row + 1]))

\* text_input.returnPressed -> _process_text_input()
ProcessTextInput(c, text, in_mode, ok) ==
    IF in_mode = "RENAME" /\ text # <<>>
    THEN HandleActionRequest(c, RenameCallback(text), "renamed", ok)
    ELSE IF in_mode = "SEARCH"
    THEN IF suggestion_list.row >= 0
         THEN JumpToImage(c, suggestion_list.items[suggestion_list.row + 1])
         ELSE IF text = <<>> THEN ClearSearchFilter(c)
         ELSE ApplyFilter(c, text)
    ELSE [c EXCEPT !.res = "nothing"]

\* In RENAME mode editing the text has no effect before Return is pressed
\* (_on_search_text_changed returns at once), so the edited text is drawn here:
\* the stem the prompt opened with, or one of RenameInputs, or nothing.
ReturnWith(texts) ==
    /\ ~at_home /\ input_visible
    /\ UNCHANGED <<loads_left, at_home>>
    /\ HideInput
    /\ \E text \in texts \cup {text_input, <<>>}, ok \in BOOLEAN :
         /\ mode = "SEARCH" => text = text_input
         /\ Becomes("return", ProcessTextInput([Cur EXCEPT !.mode = "NORMAL"], text, mode, ok))

ReturnPressed == ReturnWith(RenameInputs)

\* the threads that are in run()
Threads == {w \in {worker} \cup detached : w # None /\ ~w.finished}

\* c with thread w replaced by what a step has made of it
WithThread(c, w, s) ==
    IF w = c.worker
    THEN [c EXCEPT !.worker = s.worker, !.queue = s.queue]
    ELSE [c EXCEPT !.detached = (c.detached \ {w}) \cup (IF s.worker.finished THEN {} ELSE {s.worker}),
                   !.queue = s.queue]

\* ThumbnailWorker.run, lines 14-19: the loop takes the next item and reads the flag
WorkerCheck ==
    /\ Len(queue) < MaxQueue
    /\ UNCHANGED <<loads_left, at_home>>
    /\ InputUnchanged
    /\ \E w \in Threads :
         /\ ~w.in_item
         /\ Becomes("worker_check",
                    [WithThread(Cur, w, WorkerStep(w, fs, queue)) EXCEPT !.res = "worker"])

\* ThumbnailWorker.run, lines 21-26: decode and emit
WorkerDecode ==
    /\ UNCHANGED <<loads_left, at_home>>
    /\ InputUnchanged
    /\ \E w \in Threads :
         /\ w.in_item
         /\ Becomes("worker_decode",
                    [WithThread(Cur, w, WorkerStep(w, fs, queue)) EXCEPT !.res = "worker"])

\* _apply_thumbnail(path_str, pixmap): a queued icon_ready event is run
ApplyThumbnail ==
    /\ queue # <<>>
    /\ UNCHANGED <<loads_left, at_home>>
    /\ InputUnchanged
    /\ LET ev == Head(queue)
       IN Becomes("apply_thumbnail",
                  [Cur EXCEPT !.queue = Tail(queue),
                              !.thumb_cache = IF ev.path \in filmstrip_item_map
                                              THEN DictSet(thumb_cache, ev.path, ev.pixmap)
                                              ELSE thumb_cache,
                              !.res = IF ev.path \in filmstrip_item_map THEN "applied" ELSE "ignored"])

\* the keys that do not open the search prompt
EngineKeys ==
    \/ \E i \in 0..2 : Load(Root, i)
    \/ KeyEscape
    \/ KeySpace
    \/ KeyEnter
    \/ \E key \in DOMAIN Folders : KeyQuickFolder(key)
    \/ KeyQuit
    \/ KeyPrev
    \/ KeyNext
    \/ KeyDelete
    \/ KeyMoveMode
    \/ \E dest \in CustomDirs : KeyMoveCustom(dest)
    \/ KeyUndo
    \/ KeyShowKeys
    \/ OverlayTimeout
    \/ KeyRename
    \/ ReturnPressed

\* the search prompt and its suggestion list
SearchKeys ==
    \/ KeySearch
    \/ \E text \in Queries \cup {<<>>} : TextChanged(text)
    \/ \E row \in 0..5 : SuggestionKey(row)
    \/ \E row \in 0..5 : SuggestionActivated(row)

\* the thumbnail worker's thread and the delivery of its events
Background ==
    \/ WorkerCheck
    \/ WorkerDecode
    \/ ApplyThumbnail

Next == EngineKeys \/ SearchKeys \/ Background

\* The whole machine.
Spec == Init /\ [][Next]_vars

\* The mutation engine: every key but the search key, the worker's thread not
\* scheduled.
SpecEngine == Init /\ [][EngineKeys]_vars

\* The foreground flow with the search prompt: confirmation off, and at most
\* MaxFilterCommits committed mutations per session.
InitFilter ==
    Start /\ ~require_confirmation /\ commits_left = MaxFilterCommits /\ loads_left = MaxFilterLoads
FilterKeys == EngineKeys \/ SearchKeys
SpecFilter == InitFilter /\ [][FilterKeys]_vars

\* Renaming, undo and the search prompt, confirmation off.
InitRename ==
    Start /\ ~require_confirmation /\ commits_left = MaxCommits /\ loads_left = MaxFilterLoads
RenameKeys ==
    \/ \E i \in 0..2 : Load(Root, i)
    \/ KeyEscape
    \/ KeyPrev
    \/ KeyNext
    \/ KeyUndo
    \/ OverlayTimeout
    \/ KeyRename
    \/ ReturnPressed
    \/ KeySearch
    \/ \E text \in Queries \cup {<<>>} : TextChanged(text)
SpecRename == InitRename /\ [][RenameKeys]_vars

\* Renaming and undo while the worker's thread runs and its events are
\* delivered, over two sessions, confirmation off.
InitRace ==
    Start /\ ~require_confirmation /\ commits_left = MaxCommits /\ loads_left = MaxLoads
RaceKeys ==
    \/ \E i \in 0..2 : Load(Root, i)
    \/ KeyEscape
    \/ KeyPrev
    \/ KeyUndo
    \/ KeyRename
    \/ ReturnPressed
    \/ Background
SpecRace == InitRace /\ [][RaceKeys]_vars

\* Loading: a directory that exists or one that does not, with deletes, undo
\* and the worker in between; confirmation off.
LoadKeys ==
    \/ \E i \in 0..2 : Load(Root, i)
    \/ Load(Missing, 0)
    \/ KeyEscape
    \/ KeyNext
    \/ KeyDelete
    \/ KeyUndo
    \/ Background
SpecLoad == InitRace /\ [][LoadKeys]_vars

\* Removing, renaming and undoing, one mutation more than in the other runs,
\* confirmation off.
InitRemoval ==
    Start /\ ~require_confirmation /\ commits_left = MaxCommits + 1 /\ loads_left = MaxFilterLoads
RemovalKeys ==
    \/ \E i \in 0..2 : Load(Root, i)
    \/ KeyEscape
    \/ KeyNext
    \/ KeyDelete
    \/ KeyUndo
    \/ KeyRename
    \/ ReturnPressed
SpecRemoval == InitRemoval /\ [][RemovalKeys]_vars

\* Renaming to names with an extension of their own or with a leading dot,
\* and moving into the loaded directory itself; confirmation off.
NameKeys ==
    \/ \E i \in 0..2 : Load(Root, i)
    \/ KeyEscape
    \/ KeyNext
    \/ KeyRename
    \/ ReturnWith(OddNames)
    \/ \E dest \in CustomDirs : KeyMoveCustom(dest)
    \/ KeyUndo
SpecNames == InitRename /\ [][NameKeys]_vars

\* Renaming, undo and the search prompt while the worker's thread runs and its
\* events are delivered; confirmation off.
EventKeys ==
    \/ Load(Root, 1)
    \/ KeyEscape
    \/ KeyUndo
    \/ KeyRename
    \/ ReturnPressed
    \/ KeySearch
    \/ TextChanged(<<"a">>)
    \/ Background
SpecEvents == InitRename /\ [][EventKeys]_vars

\* The foreground flow together with the worker's thread: the keys that load,
\* filter, jump, rename, delete and undo, the steps of run() and the delivery of
\* icon_ready; confirmation off.
WorkerKeys ==
    \/ \E i \in 0..2 : Load(Root, i)
    \/ KeyEscape
    \/ KeyDelete
    \/ KeyUndo
    \/ KeyRename
    \/ ReturnPressed
    \/ KeySearch
    \/ \E text \in Queries \cup {<<>>} : TextChanged(text)
    \/ \E row \in 0..5 : SuggestionActivated(row)
    \/ Background
SpecWorker == InitFilter /\ [][WorkerKeys]_vars

(***************************************************************************)
(* The claims.                                                             *)
(***************************************************************************)
\* the catalog after the step
CatalogNext ==
    [ all_image_files |-> all_image_files', image_files |-> image_files',
      current_index |-> current_index', fs |-> fs' ]

\* a path occurs at most once in a list
NoRepeat(s) == \A i, j \in 1..Len(s) : s[i] = s[j] => i = j

\* view lists some of the entries of all, in the order all has them
RECURSIVE IsSubsequence(_, _)
IsSubsequence(view, all) ==
    IF view = <<>> THEN TRUE
    ELSE IF all = <<>> THEN FALSE
    ELSE IF Head(view) = Head(all) THEN IsSubsequence(Tail(view), Tail(all))
    ELSE IsSubsequence(view, Tail(all))

\* the entry on top of the undo stack after the step
PushedEntry == undo_stack'[Len(undo_stack')]

\* the step ran one of the handlers that can rename, move or delete
MutationStep == last'.op \in {"delete", "quick_move", "move_custom", "return", "enter"}

\* C1: a committed rename, move or delete that is undone before anything else
\* touches the catalog leaves the filesystem, all_images, the view's order and
\* the cursor exactly as they were before the mutation.
C1_RoundTrip ==
    [][(pre # None /\ last'.op = "undo" /\ last'.res = "undone") => CatalogNext = pre]_vars

C3_View ==
    IF is_search_filtered THEN IsSubsequence(image_files, all_image_files)
    ELSE image_files = all_image_files

\* C4: no path occurs twice in the view and none occurs twice in all_images.
C4_Unique == NoRepeat(image_files) /\ NoRepeat(all_image_files)

\* C5: a committed mutation pushes exactly one undo entry, a failed or rejected
\* one pushes none, an undo called with a non-empty stack takes off exactly the
\* top entry and pushes none, so that the depth of the stack is the number of
\* committed mutations less the number of such undos since the last load.
C5_StackAccounting ==
    [][ /\ Len(undo_stack') = committed' - undone'
        /\ last'.res = "committed" =>
             /\ Len(undo_stack') = Len(undo_stack) + 1
             /\ SubSeq(undo_stack', 1, Len(undo_stack)) = undo_stack
        /\ (MutationStep /\ last'.res # "committed") => undo_stack' = undo_stack
        /\ (last'.op = "undo" /\ undo_stack # <<>>) =>
             undo_stack' = SubSeq(undo_stack, 1, Len(undo_stack) - 1) ]_vars

\* the second session has committed a mutation after the first one committed
\* one
C5_Witness ==
    /\ loads_left = 0 /\ commits_left = 0
    /\ committed = 1 /\ undone = 0 /\ Len(undo_stack) = 1

\* C6: a rename, move or delete whose filesystem call fails leaves the
\* filesystem, all_images, the view, the cursor, the preview cache and the undo
\* stack as they were.
C6_MutationAtomic ==
    [][(MutationStep /\ last'.res = "failed") =>
         UNCHANGED <<fs, all_image_files, image_files, current_index, thumb_cache,
                     undo_stack>>]_vars

\* the filesystem refused a move while the undo stack and the preview cache
\* held entries
C6_Witness ==
    /\ last.op \in {"quick_move", "move_custom"} /\ last.res = "failed"
    /\ undo_stack # <<>> /\ DOMAIN thumb_cache # {}

\* C7: an undo whose filesystem reversal does not go through leaves all_images,
\* the view, the cursor and the undo stack as they were, and an undo that did
\* revert the filesystem leaves the un-reverted path in neither list.
C7_UndoAtomic ==
    [][(last'.op = "undo" /\ undo_stack # <<>>) =>
         LET src == EntrySource(undo_stack[Len(undo_stack)])
         IN /\ fs' = fs => UNCHANGED <<all_image_files, image_files, current_index,
                                       undo_stack>>
            /\ fs' # fs => ~InList(image_files', src) /\ ~InList(all_image_files', src)]_vars

\* C8: a rename whose target path exists changes neither the filesystem nor
\* all_images, the view, the cursor, the preview cache or the undo stack, and a
\* rename that commits never had a file at its target.
C8_RenameCollision ==
    [][ /\ last'.res = "exists" =>
             UNCHANGED <<fs, all_image_files, image_files, current_index, thumb_cache,
                         undo_stack>>
        /\ ( /\ last'.op = "enter" /\ confirm_callback # None
             /\ confirm_callback.kind = "rename"
             /\ current_index < Len(image_files)
             /\ RenameTarget(image_files[current_index + 1], confirm_callback.arg)
                    \in DOMAIN fs ) =>
             UNCHANGED <<fs, all_image_files, image_files, current_index, thumb_cache,
                         undo_stack>>
        /\ (last'.res = "committed" /\ PushedEntry.action = "rename_inplace") =>
             /\ PushedEntry.new_path \notin DOMAIN fs
             /\ PushedEntry.new_path.dir = PushedEntry.old_path.dir
             /\ DOMAIN fs' = (DOMAIN fs \ {PushedEntry.old_path}) \cup {PushedEntry.new_path}
             /\ \A q \in DOMAIN fs \ {PushedEntry.old_path} : fs'[q] = fs[q] ]_vars

\* a rename was turned down because its target exists, while the undo stack and
\* the preview cache held entries
C8_Witness ==
    /\ last.res = "exists" /\ overlay = "error: file exists"
    /\ undo_stack # <<>> /\ DOMAIN thumb_cache # {}

\* the name a move or delete stores name under when n names are taken
Suffixed(name, n) ==
    IF n = 0 THEN name ELSE Stem(name) \o <<"_">> \o Digits(n) \o Suffix(name)

\* C9: a committed move or delete stores the file at a path that was free, under
\* its own name when that is free in the destination and else under
\* stem_<n>.ext for the smallest free n >= 1; every other file stays where it
\* was, and the undo entry records the path the file was stored at.
C9_NoOverwrite ==
    [][(last'.res = "committed" /\ PushedEntry.action \in {"move", "delete"}) =>
         LET old == PushedEntry.old_path
             dst == EntrySource(PushedEntry)
         IN /\ dst \notin DOMAIN fs
            /\ DOMAIN fs' = (DOMAIN fs \ {old}) \cup {dst}
            /\ fs'[dst] = fs[old]
            /\ \A q \in DOMAIN fs \ {old} : fs'[q] = fs[q]
            /\ PushedEntry.action = "delete" => dst.dir = TrashDirOf(directory)
            /\ \E n \in 0..3 :
                 /\ dst.name = Suffixed(old.name, n)
                 /\ \A m \in 0..(n - 1) :
                      PathOf(dst.dir, Suffixed(old.name, m)) \in DOMAIN fs ]_vars

\* a.png was trashed where the trash already held a.png and a_1.png
C9_Witness ==
    /\ last.res = "committed" /\ undo_stack # <<>>
    /\ undo_stack[Len(undo_stack)].action = "delete"
    /\ undo_stack[Len(undo_stack)].trash_path.name = <<"a", "_", "2", ".", "p", "n", "g">>

\* the entries of all whose file name contains the query, case ignored
Selected(all, query) ==
    SelectSeq(all, LAMBDA f : Contains(LowerStr(f.name), LowerStr(query)))

\* C10: Return in the search prompt with a query that matches and no suggestion
\* selected makes the view the entries of all_images whose file name contains
\* the query, case ignored, in the order of all_images, puts the cursor on 0
\* and leaves all_images, the undo stack and the filesystem as they were; the
\* view is filtered in no other way.
C10_ApplyFilter ==
    [][ /\ ( /\ last'.op = "return" /\ mode = "SEARCH"
             /\ text_input # <<>> /\ suggestion_list.row < 0
             /\ Selected(all_image_files, text_input) # <<>> ) =>
             /\ image_files' = Selected(all_image_files, text_input)
             /\ is_search_filtered'
             /\ current_index' = 0
             /\ UNCHANGED <<all_image_files, undo_stack, fs>>
        /\ last'.res = "filtered" =>
             /\ last'.op = "return" /\ mode = "SEARCH"
             /\ image_files' = Selected(all_image_files, text_input)
             /\ image_files' # <<>> ]_vars

\* a query was applied with an entry on the undo stack and kept one of two images
C10_Witness ==
    /\ last.res = "filtered" /\ undo_stack # <<>>
    /\ Len(image_files) = 1 /\ Len(all_image_files) = 2

\* the step is Return in the search prompt with the query the prompt holds
SearchReturn == last'.op = "return" /\ mode = "SEARCH"

\* C11: Return in the search prompt with a non-empty query that no file name of
\* all_images contains leaves the view, all_images, the cursor, the filtered
\* flag and the undo stack as they were, with or without a filter active.
C11_NoMatch ==
    [][(SearchReturn /\ text_input # <<>> /\ Selected(all_image_files, text_input) = <<>>) =>
         UNCHANGED <<image_files, all_image_files, current_index, is_search_filtered,
                     undo_stack>>]_vars

\* C12: clearing an active filter, by Return on an empty query or by
\* escape/back, makes the view equal to all_images, drops the filtered flag and
\* puts the cursor on the path that was current when the search began if
\* all_images still has it, else on 0.
C12_ClearRestores ==
    [][(is_search_filtered /\ ((SearchReturn /\ text_input = <<>>) \/ last'.res = "cleared")) =>
         /\ image_files' = all_image_files'
         /\ ~is_search_filtered'
         /\ current_index' = IF InList(all_image_files', origin)
                             THEN IndexOf(all_image_files', origin) ELSE 0]_vars

\* the handlers of the search prompt
PromptStep ==
    \/ last'.op \in {"search_open", "typing", "suggestion_key"}
    \/ last'.op \in {"return", "escape"} /\ input_visible /\ mode = "SEARCH"

\* C13: opening the search prompt on an unfiltered view records the current
\* path as the pre-filter path, and while the view stays filtered no step of
\* the search prompt (opening it again, filtering again, cancelling it with
\* Escape) changes the recorded path.
C13_RecordedOnce ==
    [][ /\ (last'.op = "search_open" /\ ~is_search_filtered /\ image_files # <<>>) =>
             pre_search_path' = image_files[current_index + 1]
        /\ (PromptStep /\ is_search_filtered /\ is_search_filtered') =>
             pre_search_path' = pre_search_path ]_vars

\* C14: in every state at most one ThumbnailWorker thread is inside run(): a
\* handler that starts a worker has stopped the previous one and waited until
\* its run() returned.
C14_OneWorker == Cardinality(Threads) <= 1

\* a worker was started over a filtered view although the worker started at the
\* load had not reached b.png: no mutation was committed, and b.png is neither
\* cached nor queued
C14_Witness ==
    /\ last.res = "filtered" /\ commits_left = MaxFilterCommits
    /\ Len(all_image_files) = 2 /\ image_files = <<all_image_files[1]>>
    /\ all_image_files[2] \notin DOMAIN thumb_cache
    /\ \A k \in 1..Len(queue) : queue[k].path # all_image_files[2]
    /\ worker # None /\ ~worker.finished /\ worker.image_paths = image_files

\* the step is a handler of the foreground that stops the running worker
StopStep ==
    /\ last'.op \notin {"worker_check", "worker_decode", "apply_thumbnail"}
    /\ worker # None /\ ~worker.finished
    /\ worker' # worker

\* the event a thread emits for the item it is decoding
InProgress(w) ==
    LET p == w.image_paths[w.i + 1]
    IN IF p \in DOMAIN fs THEN <<[path |-> p, pixmap |-> fs[p]]>> ELSE <<>>

\* C15: a worker that is stopped while it is between two items emits nothing
\* more, one that is stopped while it decodes an item emits at most the preview
\* of that item; in both cases its run() has returned when the handler that
\* stopped it ends, with the items after that one not taken.
C15_Cancel ==
    [][StopStep =>
         /\ queue' = IF worker.in_item THEN queue \o InProgress(worker) ELSE queue
         /\ detached' = {}
         /\ \/ worker' = NewWorker(image_files')
            \/ worker' = [worker EXCEPT !.is_running = FALSE, !.finished = TRUE,
                                        !.in_item = FALSE,
                                        !.i = IF worker.in_item THEN worker.i + 1
                                              ELSE worker.i]]_vars

\* the viewer was left for the home screen while the worker decoded the first of
\* two items: the thread has ended after that item and its preview is queued
C15_Witness ==
    /\ at_home /\ worker # None /\ worker.finished /\ ~worker.is_running
    /\ Len(worker.image_paths) = 2 /\ worker.i = 1
    /\ queue # <<>> /\ queue[Len(queue)].path = worker.image_paths[1]
    /\ thumb_cache = EmptyDict

\* C16: the delivery of a preview event whose path is not in the view adds
\* nothing to the preview cache and leaves the catalog as it was.
C16_StaleIgnored ==
    [][(last'.op = "apply_thumbnail" /\ ~InList(image_files, Head(queue).path)) =>
         UNCHANGED <<thumb_cache, all_image_files, image_files, current_index,
                     is_search_filtered, undo_stack, fs>>]_vars

\* C17: every key of the preview cache is a path of all_images, and the preview
\* cached under a path is that of the file stored at the path.
C17_CacheLockstep ==
    \A k \in DOMAIN thumb_cache :
        /\ InList(all_image_files, k)
        /\ k \in DOMAIN fs => thumb_cache[k] = fs[k]

\* the entry on top of the undo stack
TopEntry == undo_stack[Len(undo_stack)]

\* the cache holds one preview under the old and under the new path of entry e
TwoKeys(cache, e) ==
    /\ e.old_path \in DOMAIN cache /\ e.new_path \in DOMAIN cache
    /\ cache[e.old_path] = cache[e.new_path]

\* C18: for every rename on the undo stack, whatever the worker and the
\* delivery of its events do, the preview cache never holds one preview under
\* both the old and the new path of the rename; the delivery of an event for the
\* old path of the last rename, while the view lists the file under its new
\* path and not under the old one, leaves the cache as the rename left it; and
\* the undo of a rename leaves no preview under both of its paths.
C18_RenameWhileLoading ==
    [][ /\ \A k \in 1..Len(undo_stack') :
             undo_stack'[k].action = "rename_inplace" =>
                 ~TwoKeys(thumb_cache', undo_stack'[k])
        /\ (last'.op = "undo" /\ undo_stack # <<>> /\ TopEntry.action = "rename_inplace") =>
             ~TwoKeys(thumb_cache', TopEntry)
        /\ ( /\ last'.op = "apply_thumbnail"
             /\ undo_stack # <<>> /\ TopEntry.action = "rename_inplace"
             /\ Head(queue).path = TopEntry.old_path
             /\ InList(image_files, TopEntry.new_path)
             /\ ~InList(image_files, TopEntry.old_path) ) =>
             thumb_cache' = thumb_cache ]_vars

\* the step is a key that requests a move or a delete
MoveOrDeleteKey == last'.op \in {"delete", "quick_move", "move_custom"}

\* the step is Return in the rename prompt
RenameReturn == last'.op = "return" /\ mode = "RENAME"

\* C19: with confirmation required, the request of a rename, move or delete
\* enters CONFIRM mode and changes neither the filesystem nor all_images, the
\* view, the cursor or the undo stack; a mutation is committed by Enter in
\* CONFIRM mode only; Space or Escape in CONFIRM mode returns to NORMAL with
\* none of these changed.  With confirmation off the request runs the mutation
\* itself and CONFIRM mode is not entered.
C19_ConfirmGate ==
    [][ /\ (require_confirmation /\ (MoveOrDeleteKey \/ RenameReturn)) =>
             /\ UNCHANGED <<fs, all_image_files, image_files, current_index, undo_stack>>
             /\ MoveOrDeleteKey => last'.res = "requested"
             /\ last'.res = "requested" => mode' = "CONFIRM" /\ confirm_callback' # None
        /\ (require_confirmation /\ last'.res = "committed") =>
             last'.op = "enter" /\ mode = "CONFIRM"
        /\ (mode = "CONFIRM" /\ last'.op \in {"space", "escape"}) =>
             /\ mode' = "NORMAL"
             /\ UNCHANGED <<fs, all_image_files, image_files, current_index, undo_stack>>
        /\ (~require_confirmation /\ (MoveOrDeleteKey \/ RenameReturn)) =>
             /\ last'.res # "requested" /\ mode' # "CONFIRM"
             /\ UNCHANGED confirm_callback
             /\ last'.res = "committed" <=> fs' # fs ]_vars

\* a delete awaits its confirmation after an earlier mutation went through the
\* gate
C19_Witness ==
    /\ require_confirmation /\ mode = "CONFIRM" /\ last.res = "requested"
    /\ confirm_callback = DeleteCallback /\ undo_stack # <<>>

\* what follows the last dot of a name
ExtensionOf(name) ==
    IF RFindDot(name) = 0 THEN <<>> ELSE SubSeq(name, RFindDot(name) + 1, Len(name))

ImageExtensions ==
    { <<"p", "n", "g">>, <<"j", "p", "g">>, <<"j", "p", "e", "g">>, <<"b", "m", "p">>,
      <<"g", "i", "f">>, <<"w", "e", "b", "p">> }

\* the entries of directory d that a load has to list
Listed(files, d) ==
    {p \in DOMAIN files :
        /\ p.dir = d
        /\ LowerStr(ExtensionOf(p.name)) \in ImageExtensions
        /\ p.name[1] # "."}

Z_PNG == <<"z", ".", "p", "n", "g">>

\* C20: a load makes all_images the entries of the directory that have an image
\* extension, case ignored, and no leading dot, each once and in ascending
\* order of their names; the view equals all_images, no filter is active, the
\* cursor is an index of the view (0 when it is empty), the preview cache and
\* the undo stack are empty, the trash directory exists and the filesystem is
\* as before; and all_images never lists a file of the trash.
C20_Load ==
    [][ /\ last'.res = "loaded" =>
             /\ {all_image_files'[k] : k \in 1..Len(all_image_files')}
                    = Listed(fs, directory')
             /\ \A k \in 1..(Len(all_image_files') - 1) :
                    StrLess(all_image_files'[k].name, all_image_files'[k + 1].name)
             /\ image_files' = all_image_files' /\ ~is_search_filtered'
             /\ IF image_files' = <<>> THEN current_index' = 0
                ELSE current_index' \in 0..(Len(image_files') - 1)
             /\ thumb_cache' = EmptyDict /\ undo_stack' = <<>>
             /\ TrashDirOf(directory') \in dirs'
             /\ fs' = fs
        /\ \A k \in 1..Len(all_image_files') :
               all_image_files'[k].dir # TrashDirOf(directory') ]_vars

\* the directory was loaded again after a.png had been renamed to z.png: the
\* list is in order again and the undo stack is empty
C20_Witness ==
    /\ last.res = "loaded" /\ loads_left = 0 /\ commits_left < MaxCommits
    /\ all_image_files = <<PathOf(Root, B_PNG), PathOf(Root, Z_PNG)>>
    /\ undo_stack = <<>>

\* C21: a load that fails (the path does not exist or is no directory) leaves
\* the loaded directory, all_images, the view, the cursor, the preview cache and
\* the undo stack as they were before the call.
C21_LoadFailure ==
    [][ (last'.op = "load" /\ last'.res # "loaded") =>
            /\ UNCHANGED <<all_image_files, image_files, current_index,
                           thumb_cache, undo_stack>>
            /\ loads_left < MaxLoads => directory' = directory ]_vars

\* C22: undo on an empty undo stack reports that there is nothing to undo and
\* leaves the filesystem, all_images, the view, the cursor, the preview cache,
\* the mode and the (empty) stack unchanged, on an empty view too.
C22_NothingToUndo ==
    [][ (last'.op = "undo" /\ undo_stack = <<>>) =>
            /\ last'.res = "nothing" /\ overlay' = "no history to undo"
            /\ UNCHANGED <<fs, dirs, all_image_files, image_files, current_index,
                           thumb_cache, mode, undo_stack>> ]_vars

\* undo was pressed on an empty stack and an empty view, after the only image
\* was removed and the undo of that removal had failed
C22_Witness ==
    /\ last.op = "undo" /\ last.res = "nothing"
    /\ image_files = <<>> /\ committed > 0 /\ ~at_home

\* the names of a list of paths are in strictly ascending order
SortedNames(s) == \A k \in 1..(Len(s) - 1) : StrLess(s[k].name, s[k + 1].name)

\* C23: all_images is sorted by name in every state; a rename that commits
\* puts the new path into all_images in place of the old one, the file is
\* stored under the new path, and all_images is still sorted.
C23_RenameSorted ==
    [][ /\ SortedNames(all_image_files')
        /\ ( /\ last'.res = "committed"
             /\ undo_stack'[Len(undo_stack')].action = "rename_inplace" ) =>
             LET e == undo_stack'[Len(undo_stack')]
             IN /\ InList(all_image_files', e.new_path)
                /\ ~InList(all_image_files', e.old_path)
                /\ Len(all_image_files') = Len(all_image_files)
                /\ e.new_path \in DOMAIN fs' /\ e.old_path \notin DOMAIN fs'
                /\ fs'[e.new_path] = fs[e.old_path] ]_vars

\* list s with every entry a replaced by b
Replaced(s, a, b) == [k \in 1..Len(s) |-> IF s[k] = a THEN b ELSE s[k]]

\* the step is an undo that moved the file of the top entry back; kind is the
\* set of the entry's actions
UndoOf(kind) ==
    /\ last'.op = "undo" /\ last'.res \in {"undone", "index_error"}
    /\ TopEntry.action \in kind

\* C24: the undo of a rename renames the file back, replaces the new path by
\* the old path in all_images and in the view, in the entry that holds the new
\* path, migrates the key of the preview cache back and sets the cursor to the
\* index recorded in the entry, wherever the cursor was.
C24_UndoRename ==
    [][ UndoOf({"rename_inplace"}) =>
            LET e == TopEntry
            IN /\ fs' = FsMoved(fs, e.new_path, e.old_path)
               /\ all_image_files' = Replaced(all_image_files, e.new_path, e.old_path)
               /\ image_files' = Replaced(image_files, e.new_path, e.old_path)
               /\ thumb_cache' =
                      IF e.new_path \in DOMAIN thumb_cache
                      THEN DictSet(DictPop(thumb_cache, e.new_path), e.old_path,
                                   thumb_cache[e.new_path])
                      ELSE thumb_cache
               /\ current_index' = e.index
               /\ undo_stack' = SubSeq(undo_stack, 1, Len(undo_stack) - 1) ]_vars

\* C25: the undo of a move or of a delete moves the file back to its old path,
\* inserts the old path into all_images and into the view at the recorded index
\* clamped to the length of each list, and sets the cursor to that index.
C25_UndoRemoval ==
    [][ UndoOf({"move", "delete"}) =>
            LET e == TopEntry
                at_view == Min(e.index, Len(image_files))
                at_all == Min(e.index, Len(all_image_files))
            IN /\ fs' = FsMoved(fs, EntrySource(e), e.old_path)
               /\ image_files' = Insert(image_files, at_view, e.old_path)
               /\ all_image_files' = Insert(all_image_files, at_all, e.old_path)
               /\ current_index' = at_view
               /\ undo_stack' = SubSeq(undo_stack, 1, Len(undo_stack) - 1) ]_vars

\* the step committed a move or a delete
RemovalStep ==
    /\ last'.res = "committed"
    /\ Len(undo_stack') = Len(undo_stack) + 1
    /\ undo_stack'[Len(undo_stack')].action \in {"move", "delete"}

\* C26: a move or delete that commits removes the current path from all_images
\* and from the view, with or without a filter, records the cursor it was
\* pressed at in the undo entry, and leaves the cursor at the same index clamped
\* into the shrunk view: the last index if the last element was removed, 0 if
\* the view became empty.
C26_RemovalCursor ==
    [][ RemovalStep =>
            LET p == image_files[current_index + 1]
                e == undo_stack'[Len(undo_stack')]
            IN /\ image_files' = Pop(image_files, current_index)
               /\ ~InList(image_files', p) /\ ~InList(all_image_files', p)
               /\ \A k \in 1..Len(all_image_files) :
                      all_image_files[k] # p => InList(all_image_files', all_image_files[k])
               /\ Len(all_image_files') = Len(all_image_files) - 1
               /\ e.old_path = p /\ e.index = current_index
               /\ current_index' = IF image_files' = <<>> THEN 0
                                   ELSE Min(current_index, Len(image_files') - 1)
               /\ is_search_filtered' = is_search_filtered ]_vars

\* the step is one of the worker's thread
WorkerOwnStep == last'.op \in {"worker_check", "worker_decode"}

\* C27: a step of the worker changes nothing but its own position and the
\* queue of preview events, to which it appends at most the event of the path
\* at its position in the list it was constructed with; that list stays as it
\* was constructed while the same worker runs, whatever happens to the view;
\* and the preview cache changes in steps of the foreground only.
C27_WorkerFrame ==
    [][ /\ WorkerOwnStep =>
             /\ UNCHANGED <<fs, dirs, directory, all_image_files, image_files,
                            current_index, undo_stack, thumb_cache,
                            filmstrip_item_map, mode, is_search_filtered>>
             /\ worker'.image_paths = worker.image_paths
             /\ \/ queue' = queue
                \/ /\ last'.op = "worker_decode"
                   /\ LET p == worker.image_paths[worker.i + 1]
                      IN /\ p \in DOMAIN fs
                         /\ queue' = Append(queue, [path |-> p, pixmap |-> fs[p]])
        /\ ( /\ ~WorkerOwnStep /\ worker # None /\ worker' # None
             /\ worker' # NewWorker(image_files') ) =>
             worker'.image_paths = worker.image_paths
        /\ thumb_cache' # thumb_cache => ~WorkerOwnStep ]_vars

\* the worker has gone through the whole list it was constructed with and
\* emitted the preview of its second path, after the view had changed under it
C27_Witness ==
    /\ last.op = "worker_decode" /\ worker # None
    /\ worker.image_paths # image_files
    /\ worker.i = 2 /\ queue # <<>> /\ queue[Len(queue)].path = worker.image_paths[2]

\* C28: every path of all_images and of the view has an image extension, a
\* name that does not start with a dot, and lies directly in the loaded
\* directory.
C28_ListedNames ==
    \A k \in 1..Len(all_image_files) \cup 1..Len(image_files) :
        \A p \in (IF k <= Len(all_image_files) THEN {all_image_files[k]} ELSE {})
                     \cup (IF k <= Len(image_files) THEN {image_files[k]} ELSE {}) :
            /\ LowerStr(ExtensionOf(p.name)) \in ImageExtensions
            /\ p.name[1] # "."
            /\ p.dir = directory

\* C29: Enter commits a mutation only while the confirmation prompt of a
\* request is showing; once the request was cancelled or committed, Enter in
\* CONFIRM mode, entered again through the key help, changes neither the
\* filesystem nor all_images, the view or the undo stack.
C29_AtMostOnce ==
    [][ (last'.op = "enter" /\ overlay # "confirm") =>
            /\ last'.res # "committed"
            /\ UNCHANGED <<fs, all_image_files, image_files, undo_stack>> ]_vars

\* C30: no key runs a rename, move or delete on an empty view: a mutation
\* commits only from a state with a current image, and no handler of a key
\* ends in an unhandled fault.
C30_NeedsCurrent ==
    [][ /\ last'.res = "committed" =>
               image_files # <<>> /\ current_index < Len(image_files)
        /\ last'.op # "load" => last'.res # "fault" ]_vars

\* C31: a folder key in QUICK_MOVE mode that commits the move leaves the mode
\* NORMAL, one that asks for confirmation leaves it CONFIRM; Enter, Space and
\* Escape in CONFIRM or QUICK_MOVE mode lead to NORMAL.
C31_QuickMoveMode ==
    [][ /\ (last'.op = "quick_move" /\ last'.res = "committed") => mode' = "NORMAL"
        /\ (last'.op = "quick_move" /\ last'.res = "requested") => mode' = "CONFIRM"
        /\ ( /\ mode \in {"CONFIRM", "QUICK_MOVE"}
             /\ last'.op \in {"enter", "space", "escape"} ) => mode' = "NORMAL" ]_vars

\* C32: every path of all_images and of the view is the path of a file that
\* exists.
C32_ListedExist ==
    /\ \A k \in 1..Len(all_image_files) : all_image_files[k] \in DOMAIN fs
    /\ \A k \in 1..Len(image_files) : image_files[k] \in DOMAIN fs

\* the files stored in a filesystem
FilesOf(files) == {files[p] : p \in DOMAIN files}

\* C33: a step that changes the filesystem moves one file to a path that was
\* free: the number of paths and the files stored stay the same, whether the
\* step is a rename, a move, a delete or an undo.
C33_NoFileLost ==
    [][ fs' # fs =>
            /\ Cardinality(DOMAIN fs') = Cardinality(DOMAIN fs)
            /\ FilesOf(fs') = FilesOf(fs)
            /\ \A p \in DOMAIN fs' \cap DOMAIN fs : fs'[p] = fs[p] ]_vars

\* the success messages of rename, move, delete and undo
SuccessMessages ==
    {"renamed", "moved", "file trashed", "undo: rename reverted", "undo: file restored"}

\* C34: after a rename that was rejected because the target exists, and after
\* a rename, move, delete or undo whose filesystem call failed, the overlay does
\* not show a success message.
C34_FailureReported ==
    [][ last'.res \in {"exists", "failed"} => overlay' \notin SuccessMessages ]_vars

\* the event the worker emits for the path at its position, if the file decodes
EventAt(w, files) ==
    LET p == w.image_paths[w.i + 1]
    IN IF p \in DOMAIN files THEN <<[path |-> p, pixmap |-> files[p]]>> ELSE <<>>

\* C35: the worker goes through the list it was started with in order, one
\* position per decode: a decode appends the event of the path at the position,
\* or nothing when the file cannot be read, and moves on either way; the check
\* of the flag emits nothing; the position never goes back; a handler of the
\* foreground that waits for the worker lets it finish at most the item it is
\* in; and the list holds every path once, so no path gets two events.
C35_EventsInOrder ==
    [][ /\ last'.op = "worker_decode" =>
             /\ worker'.image_paths = worker.image_paths
             /\ worker'.i = worker.i + 1
             /\ queue' = queue \o EventAt(worker, fs)
        /\ last'.op = "worker_check" =>
             /\ worker'.image_paths = worker.image_paths
             /\ worker'.i = worker.i /\ queue' = queue
        /\ ( /\ ~WorkerOwnStep /\ last'.op # "apply_thumbnail"
             /\ worker # None ) =>
             \/ queue' = queue
             \/ worker.in_item /\ queue' = queue \o EventAt(worker, fs)
        /\ ( /\ ~WorkerOwnStep /\ worker # None /\ worker' # None
             /\ worker'.image_paths = worker.image_paths ) =>
             \/ worker'.i \in {worker.i, worker.i + 1}
             \/ worker' = NewWorker(image_files')
        /\ worker' # None =>
             /\ NoRepeat(worker'.image_paths)
             /\ worker'.i \in 0..Len(worker'.image_paths) ]_vars

====
